---- MODULE Spec2Model ----
(***************************************************************************)
(* Model of ilp_circuit_distance.py: parse_dem_errors (DEM -> incidence    *)
(* lists) and mip_circuit_distance (incidence lists -> integer program ->  *)
(* result record), plus the result read of the example driver              *)
(* BB_code_example.py.                                                     *)
(*                                                                         *)
(* Encoding conventions                                                    *)
(*  - Python's None / a value v is the set {} / {v} (NoneV / Some(v)), so  *)
(*    that an absent value and an empty list stay different.               *)
(*  - Python dicts are TLA+ records; a missing key is a missing field.     *)
(*  - Mechanism, detector and observable indices are the 0-based Python    *)
(*    ones.  A Python list l is the sequence with l[k] at position k+1.    *)
(*  - Values read back from the solver (x[j].x) are floats; they are kept  *)
(*    in tenths, so 0.5 is 5 and a binary 1 may come back as 9, 10 or 11.  *)
(*  - The MIP engine (python-mip, CBC/Gurobi) is outside the repository.   *)
(*    m.optimize() is modelled by its contract: OPTIMAL/FEASIBLE carry an  *)
(*    optimal/feasible assignment of the model that was built, a proof of  *)
(*    infeasibility is only reported for an infeasible model.              *)
(*  - verbose and solver_name only select the engine and its logging       *)
(*    (lines 53-56); nothing else reads them, so they are not in the       *)
(*    state.  A DEM is a flat sequence of instructions.                    *)
(***************************************************************************)
EXTENDS Integers, Sequences, FiniteSets, TLC

VARIABLES dem, time_limit, pc, parsed, m, sol, result, first

vars == <<dem, time_limit, pc, parsed, m, sol, result, first>>

(***************************************************************************)
(* Bounds of the input space.                                              *)
(***************************************************************************)
MaxInstr == 3
MaxTargets == 2
MaxDet == 2
MaxObs == 2
\* magnitude (in tenths) of the floating-point slack on a value read back
Tol == 1

\* x[j].x >= 0.5 (line 136), in tenths
Half == 5
\* the value 1 of a BINARY variable (line 59), in tenths
One == 10
\* the default wall-clock budget of the signature (line 4)
DefaultTimeLimit == 300

NoneV == {}
Some(v) == {v}
The(o) == CHOOSE v \in o : TRUE

(***************************************************************************)
(* Small helpers standing for Python built-ins.                            *)
(***************************************************************************)
Range(s) == {s[k] : k \in DOMAIN s}

Min(S) == CHOOSE v \in S : \A u \in S : v <= u

\* sorted(S) for a finite set of integers
RECURSIVE SortedSeq(_)
SortedSeq(S) == IF S = {} THEN <<>> ELSE <<Min(S)>> \o SortedSeq(S \ {Min(S)})

\* a faulty variant of SortedSet: sorted() without set(), repeated targets kept
RECURSIVE SortedKeepDup(_)
SortedKeepDup(s) ==
  IF s = <<>> THEN <<>>
  ELSE LET k == CHOOSE i \in DOMAIN s : \A u \in DOMAIN s : s[i] <= s[u]
       IN <<s[k]>> \o SortedKeepDup(SubSeq(s, 1, k - 1) \o SubSeq(s, k + 1, Len(s)))

\* sorted(set(s)), lines 185-186
SortedSet(s) == SortedSeq(Range(s))

\* [f(e) for e in s]
RECURSIVE MapVal(_)
MapVal(s) == IF s = <<>> THEN <<>> ELSE <<Head(s).val>> \o MapVal(Tail(s))

(***************************************************************************)
(* The detector error model: instructions and declared totals.             *)
(***************************************************************************)
DetTarget(v) == [kind |-> "relative_detector_id", val |-> v]

ObsTarget(v) == [kind |-> "logical_observable_id", val |-> v]

Targets == {DetTarget(v) : v \in 0..(MaxDet - 1)} \cup {ObsTarget(v) : v \in 0..(MaxObs - 1)}

TargetLists == UNION {[1..k -> Targets] : k \in 0..MaxTargets}

ErrorInst(ts) == [type |-> "error", targets |-> ts]

ShiftInst == [type |-> "shift_detectors", targets |-> <<>>]

\* any instruction kind that is neither an error nor a shift
OtherInst == [type |-> "detector", targets |-> <<>>]

Instructions == {ErrorInst(ts) : ts \in TargetLists} \cup {ShiftInst, OtherInst}

InstLists == UNION {[1..k -> Instructions] : k \in 0..MaxInstr}

is_relative_detector_id(t) == t.kind = "relative_detector_id"

is_logical_observable_id(t) == t.kind = "logical_observable_id"

\* the detector / observable indices an instruction list mentions
UsedDet(insts) ==
  {t.val : t \in {u \in UNION {Range(insts[k].targets) : k \in DOMAIN insts} : is_relative_detector_id(u)}}

UsedObs(insts) ==
  {t.val : t \in {u \in UNION {Range(insts[k].targets) : k \in DOMAIN insts} : is_logical_observable_id(u)}}

\* the DEM with instruction list il and the declared totals nd and no
DEM(il, nd, no) == [insts |-> il, num_detectors |-> nd, num_observables |-> no]

\* a DEM declares at least the indices it uses, and may declare more
WellFormed(d) ==
  /\ \A i \in UsedDet(d.insts) : i < d.num_detectors
  /\ \A r \in UsedObs(d.insts) : r < d.num_observables


(***************************************************************************)
(* parse_dem_errors, lines 147-198.                                        *)
(***************************************************************************)
\* a faulty variant of IsShift: the shift instruction falls through to the final else
IsShiftIgnored(inst) == FALSE

\* inst.type == "shift_detectors", line 166
IsShift(inst) == inst.type = "shift_detectors"

\* inst.type == "error", line 173
IsError(inst) == inst.type = "error"

\* lines 174-186: the detector list and the observable list of one error
\* instruction; the offset is added to every relative detector id
ErrorTargets(inst, running_detector_offset) ==
  LET dets == MapVal(SelectSeq(inst.targets, is_relative_detector_id))
      obs  == MapVal(SelectSeq(inst.targets, is_logical_observable_id))
  IN [dets |-> SortedSet([k \in DOMAIN dets |-> running_detector_offset + dets[k]]),
      obs  |-> SortedSet(obs)]

\* the for loop of lines 165-193 from instruction k on; acc holds the two
\* lists and the running offset.  A shift raises and leaves nothing behind.
RECURSIVE ParseLoop(_, _, _)
ParseLoop(insts, k, acc) ==
  IF k > Len(insts) THEN [ret |-> acc]
  ELSE IF IsShift(insts[k]) THEN [exc |-> "NotImplementedError"]
  ELSE IF IsError(insts[k])
       THEN LET e == ErrorTargets(insts[k], acc.running_detector_offset)
            IN ParseLoop(insts, k + 1,
                 [acc EXCEPT !.err_detectors = Append(@, e.dets),
                             !.err_observables = Append(@, e.obs)])
       ELSE ParseLoop(insts, k + 1, acc)

\* dem.num_detectors, dem.num_observables, lines 195-196
DeclaredTotals(d) ==
  [num_detectors |-> d.num_detectors, num_observables |-> d.num_observables]

\* the whole function: [exc |-> ...] when it raises, [ret |-> tuple] otherwise
parse_dem_errors(d) ==
  LET r == ParseLoop(d.insts, 1,
             [err_detectors |-> <<>>, err_observables |-> <<>>,
              running_detector_offset |-> 0])
  IN IF "exc" \in DOMAIN r THEN r
     ELSE [ret |-> [err_detectors |-> r.ret.err_detectors,
                    err_observables |-> r.ret.err_observables,
                    num_detectors |-> DeclaredTotals(d).num_detectors,
                    num_observables |-> DeclaredTotals(d).num_observables]]

(***************************************************************************)
(* mip_circuit_distance: building the integer program, lines 41-120.       *)
(***************************************************************************)
\* for d in dets: to_errors[d].append(j), lines 44-45 and 49-50
RECURSIVE AppendAll(_, _, _)
AppendAll(acc, ds, j) ==
  IF ds = <<>> THEN acc
  ELSE AppendAll([acc EXCEPT ![Head(ds)] = Append(@, j)], Tail(ds), j)

RECURSIVE InvertFrom(_, _, _)
InvertFrom(lists, k, acc) ==
  IF k > Len(lists) THEN acc
  ELSE InvertFrom(lists, k + 1, AppendAll(acc, lists[k], k - 1))

\* det_to_errors / obs_to_errors, lines 42-50: index -> list of mechanisms
InvertedMap(lists, n) == InvertFrom(lists, 1, [i \in 0..(n - 1) |-> <<>>])

\* a faulty variant of max_pairs: a slack bound that is too tight
max_pairs_tight(num_errors) == num_errors \div 4

\* max_pairs = num_errors // 2, line 62
max_pairs(num_errors) == num_errors \div 2

\* a faulty variant of DetectorCons: the detector parity constraints are left out
RECURSIVE NoDetectorCons(_, _)
NoDetectorCons(det_to_errors, i) == <<>>

\* lines 91-99: one parity equality per detector touched by a mechanism
RECURSIVE DetectorCons(_, _)
DetectorCons(det_to_errors, i) ==
  IF i \notin DOMAIN det_to_errors THEN <<>>
  ELSE (IF det_to_errors[i] # <<>>
        THEN <<[kind |-> "detector_parity", idx |-> i, errs |-> det_to_errors[i]]>>
        ELSE <<>>) \o DetectorCons(det_to_errors, i + 1)

\* a faulty variant of LogicalCons: an untouched observable gets no w_r = 0
RECURSIVE LogicalConsNoZero(_, _)
LogicalConsNoZero(obs_to_errors, r) ==
  IF r \notin DOMAIN obs_to_errors THEN <<>>
  ELSE (IF obs_to_errors[r] # <<>>
        THEN <<[kind |-> "logical_parity", idx |-> r, errs |-> obs_to_errors[r]]>>
        ELSE <<>>) \o LogicalConsNoZero(obs_to_errors, r + 1)

\* lines 102-110: parity equality with parity bit, or w_r = 0
RECURSIVE LogicalCons(_, _)
LogicalCons(obs_to_errors, r) ==
  IF r \notin DOMAIN obs_to_errors THEN <<>>
  ELSE (IF obs_to_errors[r] # <<>>
        THEN <<[kind |-> "logical_parity", idx |-> r, errs |-> obs_to_errors[r]]>>
        ELSE <<[kind |-> "logical_always_even", idx |-> r, errs |-> <<>>]>>)
       \o LogicalCons(obs_to_errors, r + 1)

\* xsum(w) >= 1, line 114
SomeLogicalFlipped == [kind |-> "some_logical_flipped", idx |-> 0, errs |-> <<>>]

\* the state of m before Model(...) is called
NoModel ==
  [created |-> FALSE, nx |-> 0, ny |-> 0, ns |-> 0, nw |-> 0, ub |-> 0,
   constrs |-> <<>>, objective |-> "unset", max_mip_gap |-> "default",
   max_seconds |-> NoneV, optimized |-> FALSE]

\* lines 53-110: the model with its variables and parity constraints
BuiltModel(p) ==
  LET num_errors == Len(p.err_detectors)
      det_to_errors == InvertedMap(p.err_detectors, p.num_detectors)
      obs_to_errors == InvertedMap(p.err_observables, p.num_observables)
  IN [NoModel EXCEPT !.created = TRUE,
                     !.nx = num_errors,
                     !.ny = p.num_detectors,
                     !.ns = p.num_observables,
                     !.nw = p.num_observables,
                     !.ub = max_pairs(num_errors),
                     !.constrs = DetectorCons(det_to_errors, 0)
                                   \o LogicalCons(obs_to_errors, 0)]

\* the three-entry record of lines 39, 117 and 133 with status None
DegenerateRecord == [status |-> "None", distance |-> NoneV, error_indices |-> NoneV]


(***************************************************************************)
(* What the integer program means.  x and w are assignments of the binary  *)
(* variables; every slack y_i, s_r occurs in exactly one constraint, so    *)
(* its value is chosen per constraint within its bounds 0..ub.             *)
(***************************************************************************)
\* xsum(x[j] for j in errs)
RECURSIVE XSum(_, _)
XSum(x, errs) == IF errs = <<>> THEN 0 ELSE x[Head(errs)] + XSum(x, Tail(errs))

\* xsum over all the variables of a vector indexed 0..n-1
RECURSIVE XSumAll(_, _)
XSumAll(v, n) == IF n = 0 THEN 0 ELSE v[n - 1] + XSumAll(v, n - 1)

Satisfies(c, x, w, mm) ==
  CASE c.kind = "detector_parity" ->
         \E y \in 0..mm.ub : XSum(x, c.errs) - 2 * y = 0
    [] c.kind = "logical_parity" ->
         \E s \in 0..mm.ub : XSum(x, c.errs) - 2 * s - w[c.idx] = 0
    [] c.kind = "logical_always_even" -> w[c.idx] = 0
    [] c.kind = "some_logical_flipped" -> XSumAll(w, mm.nw) >= 1

\* the assignments of x that extend to a feasible assignment of the model
FeasibleX(mm) ==
  {x \in [0..(mm.nx - 1) -> {0, 1}] :
     \E w \in [0..(mm.nw - 1) -> {0, 1}] :
        \A k \in DOMAIN mm.constrs : Satisfies(mm.constrs[k], x, w, mm)}

\* m.objective = xsum(x), line 120
Objective(x, mm) == XSumAll(x, mm.nx)

\* the least objective value over a non-empty set F of assignments
LeastObjective(F, mm) == Min({Objective(x, mm) : x \in F})

OptimalX(mm) ==
  LET F == FeasibleX(mm)
  IN IF F = {} THEN {} ELSE {x \in F : Objective(x, mm) = LeastObjective(F, mm)}

(***************************************************************************)
(* m.optimize(), line 126: the outcomes the engine's contract allows.      *)
(***************************************************************************)
NotSolved == [status |-> "LOADED", x |-> <<>>, objective_bound |-> 0]

\* x holds the assignment found, objective_bound the proven lower bound
SolverOutcomes(mm) ==
  LET F == FeasibleX(mm)
      best == IF F = {} THEN 0 ELSE LeastObjective(F, mm)
  IN {[status |-> "OPTIMAL", x |-> x, objective_bound |-> best] :
          x \in {u \in F : Objective(u, mm) = best}}
     \cup
     {[status |-> "FEASIBLE", x |-> x, objective_bound |-> lb] :
          x \in F, lb \in 0..best}
     \cup
     (IF F = {}
      THEN {[NotSolved EXCEPT !.status = st] : st \in {"INFEASIBLE", "INT_INFEASIBLE"}}
      ELSE {})
     \cup
     {[NotSolved EXCEPT !.status = st] : st \in {"NO_SOLUTION_FOUND", "ERROR"}}

\* x[j].x: the float read back for each variable, in tenths, off by d tenths
\* from the integer value the solver assigned
ReadBack(x, d) == [j \in DOMAIN x |-> x[j] * One + d]

\* the floating-point slack a read may carry
Slack == {0 - Tol, 0, Tol}

\* ok_statuses, line 130
ok_statuses == {"OPTIMAL", "FEASIBLE"}

\* a faulty variant of chosen: only a value of at least 1 counts as selected
chosen_exact(x, num_errors) ==
  SortedSeq({j \in 0..(num_errors - 1) : x[j] >= One})

\* chosen = [j for j in range(num_errors) if x[j].x >= 0.5], line 136
chosen(x, num_errors) ==
  SortedSeq({j \in 0..(num_errors - 1) : x[j] >= Half})

\* the record of line 133
NotOkRecord(s) == [status |-> s.status, distance |-> NoneV, error_indices |-> NoneV]

\* the record of lines 136-144, xs being the values read back
OkRecord(s, xs, num_errors) ==
  [status |-> s.status,
   distance |-> Some(Len(chosen(xs, num_errors))),
   error_indices |-> Some(chosen(xs, num_errors)),
   lower_bound |-> s.objective_bound]

(***************************************************************************)
(* The invocation as a state machine.                                      *)
(***************************************************************************)
Init ==
  /\ \E il \in InstLists, nd \in 0..MaxDet, no \in 0..MaxObs :
       /\ WellFormed(DEM(il, nd, no))
       /\ dem = DEM(il, nd, no)
  /\ time_limit \in {NoneV, Some(DefaultTimeLimit)}
  /\ pc = "call"
  /\ parsed = NoneV
  /\ m = NoModel
  /\ sol = NotSolved
  /\ result = NoneV
  /\ first = NoneV

\* line 35: the parser runs first; its failure ends the invocation
Parse ==
  /\ pc = "call"
  /\ LET r == parse_dem_errors(dem)
     IN IF "exc" \in DOMAIN r
        THEN pc' = "raised" /\ parsed' = parsed
        ELSE pc' = "parsed" /\ parsed' = Some(r.ret)
  /\ UNCHANGED <<dem, time_limit, m, sol, result, first>>

\* a faulty variant of ZeroErrors: the early return of line 38 is never taken
ZeroErrorsNever(num_errors) == FALSE

\* num_errors == 0, line 38
ZeroErrors(num_errors) == num_errors = 0

\* lines 37-39
CheckErrors ==
  /\ pc = "parsed"
  /\ IF ZeroErrors(Len(The(parsed).err_detectors))
     THEN pc' = "returned" /\ result' = Some(DegenerateRecord)
     ELSE pc' = "build" /\ result' = result
  /\ UNCHANGED <<dem, time_limit, parsed, m, sol, first>>

\* a faulty variant of Build: the number of observables is looked at before the model
\* is made
BuildCheckFirst ==
  /\ pc = "build"
  /\ IF The(parsed).num_observables > 0
     THEN /\ m' = [BuiltModel(The(parsed)) EXCEPT !.constrs = Append(@, SomeLogicalFlipped)]
          /\ pc' = "built"
          /\ result' = result
     ELSE /\ m' = m
          /\ pc' = "returned"
          /\ result' = Some(DegenerateRecord)
  /\ UNCHANGED <<dem, time_limit, parsed, sol, first>>

\* lines 41-117: the model, its variables and parity constraints are made;
\* only then is the number of observables looked at
Build ==
  /\ pc = "build"
  /\ LET mm == BuiltModel(The(parsed))
     IN IF The(parsed).num_observables > 0
        THEN /\ m' = [mm EXCEPT !.constrs = Append(@, SomeLogicalFlipped)]
             /\ pc' = "built"
             /\ result' = result
        ELSE /\ m' = mm
             /\ pc' = "returned"
             /\ result' = Some(DegenerateRecord)
  /\ UNCHANGED <<dem, time_limit, parsed, sol, first>>

\* lines 120-124: the objective, and under a time limit the gap and budget
Configured(mm, tl) ==
  IF tl # NoneV
  THEN [mm EXCEPT !.objective = "xsum(x)", !.max_mip_gap = "0", !.max_seconds = tl]
  ELSE [mm EXCEPT !.objective = "xsum(x)"]

\* lines 120-128
Solve ==
  /\ pc = "built"
  /\ LET mm == Configured(m, time_limit)
     IN /\ m' = [mm EXCEPT !.optimized = TRUE]
        /\ sol' \in SolverOutcomes(mm)
  /\ pc' = "solved"
  /\ UNCHANGED <<dem, time_limit, parsed, result, first>>

\* lines 130-144
Extract ==
  /\ pc = "solved"
  /\ \E d \in Slack :
       result' = Some(IF sol.status \notin ok_statuses
                      THEN NotOkRecord(sol)
                      ELSE OkRecord(sol, ReadBack(sol.x, d), m.nx))
  /\ pc' = "returned"
  /\ UNCHANGED <<dem, time_limit, parsed, m, sol, first>>

Next == Parse \/ CheckErrors \/ Build \/ Solve \/ Extract

Spec == Init /\ [][Next]_vars


(***************************************************************************)
(* Re-running the function on the DEM with one mechanism duplicated: the   *)
(* harness of the duplication property.  first keeps the status and the    *)
(* distance of the run on the original DEM.                                *)
(***************************************************************************)
Duplicate ==
  /\ pc = "returned"
  /\ first = NoneV
  /\ The(result).status \in {"OPTIMAL", "INFEASIBLE"}
  /\ \E k \in DOMAIN dem.insts :
       /\ IsError(dem.insts[k])
       /\ \E inst \in Instructions :
            /\ IsError(inst)
            /\ ErrorTargets(inst, 0) = ErrorTargets(dem.insts[k], 0)
            /\ dem' = [dem EXCEPT !.insts = Append(@, inst)]
  /\ first' = Some([status |-> The(result).status, distance |-> The(result).distance])
  /\ pc' = "call"
  /\ parsed' = NoneV
  /\ m' = NoModel
  /\ sol' = NotSolved
  /\ result' = NoneV
  /\ UNCHANGED time_limit

\* error instructions only, each with its targets already sorted and distinct
Canonical(d) ==
  \A k \in DOMAIN d.insts :
     /\ IsError(d.insts[k])
     /\ LET e == ErrorTargets(d.insts[k], 0)
        IN MapVal(d.insts[k].targets) = e.dets \o e.obs
     /\ \A a, b \in DOMAIN d.insts[k].targets :
          (a < b /\ is_logical_observable_id(d.insts[k].targets[a]))
             => is_logical_observable_id(d.insts[k].targets[b])

InitDup ==
  /\ \E il \in InstLists, nd \in 0..MaxDet, no \in 0..MaxObs :
       /\ WellFormed(DEM(il, nd, no))
       /\ Canonical(DEM(il, nd, no))
       /\ dem = DEM(il, nd, no)
  /\ time_limit \in {NoneV, Some(DefaultTimeLimit)}
  /\ pc = "call"
  /\ parsed = NoneV
  /\ m = NoModel
  /\ sol = NotSolved
  /\ result = NoneV
  /\ first = NoneV

NextDup == Next \/ Duplicate

SpecDup == InitDup /\ [][NextDup]_vars

(***************************************************************************)
(* The reference notions the properties are stated with: parity replayed   *)
(* over incidence lists, with no integer program involved.                 *)
(***************************************************************************)
HasShift(d) == \E k \in DOMAIN d.insts : d.insts[k].type = "shift_detectors"

\* the error instructions of a DEM, in order
ErrorInsts(d) == SelectSeq(d.insts, LAMBDA i : i.type = "error")

Occurrences(list, v) == Cardinality({k \in DOMAIN list : list[k] = v})

\* how many times firing the mechanisms of S flips index v
RECURSIVE Flips(_, _, _)
Flips(lists, S, v) ==
  IF S = {} THEN 0
  ELSE LET j == CHOOSE u \in S : TRUE
       IN Occurrences(lists[j + 1], v) + Flips(lists, S \ {j}, v)

\* S flips every detector an even number of times and some observable an
\* odd number of times
UndetectedLogical(S, p) ==
  /\ \A i \in 0..(p.num_detectors - 1) : Flips(p.err_detectors, S, i) % 2 = 0
  /\ \E r \in 0..(p.num_observables - 1) : Flips(p.err_observables, S, r) % 2 = 1

LogicalErrors(p) ==
  {S \in SUBSET (0..(Len(p.err_detectors) - 1)) : UndetectedLogical(S, p)}

MinWeight(p) == Min({Cardinality(S) : S \in LogicalErrors(p)})

\* the solver was run on a completely built model
SolverRan == m.optimized

Returned == pc = "returned"

Res == The(result)


NumErrors(d) == Len(ErrorInsts(d))

\* a DEM with no mechanism or no observable
Degenerate(d) == NumErrors(d) = 0 \/ d.num_observables = 0

StrictlyIncreasing(s) == \A a, b \in DOMAIN s : a < b => s[a] < s[b]

TargetVals(inst, kind) == {t.val : t \in {u \in Range(inst.targets) : u.kind = kind}}

\* NotBuilt = 0, Built = 1, Solved = 2
PhaseRank == IF m.optimized THEN 2 ELSE IF m.created THEN 1 ELSE 0

(***************************************************************************)
(* The example driver, BB_code_example.py lines 78-84.                     *)
(***************************************************************************)
\* if not result["status"] == OptimizationStatus.OPTIMAL, line 81
DriverReadsLowerBound(r) == r.status # "OPTIMAL"

\* result["lower_bound"], line 83, on a record without that key
DriverKeyError(r) == DriverReadsLowerBound(r) /\ "lower_bound" \notin DOMAIN r

(***************************************************************************)
(* C1.  The integer program, once completely built (at least one           *)
(* mechanism, at least one observable), is infeasible exactly when no      *)
(* subset of mechanisms flips every detector evenly and some observable    *)
(* oddly; otherwise its least objective value is the least cardinality of  *)
(* such a subset, and a result with status optimal carries that value as   *)
(* distance.                                                               *)
(***************************************************************************)
C1_IPOptimumIsDistance ==
  /\ pc = "built" =>
       LET F == FeasibleX(m)
           L == LogicalErrors(The(parsed))
       IN /\ (F = {}) <=> (L = {})
          /\ F # {} => LeastObjective(F, m) = MinWeight(The(parsed))
  /\ (pc = "solved" /\ sol.status \in {"INFEASIBLE", "INT_INFEASIBLE"}) =>
       LogicalErrors(The(parsed)) = {}
  /\ (Returned /\ SolverRan /\ Res.status = "OPTIMAL") =>
       Res.distance = Some(MinWeight(The(parsed)))

\* an optimal result of distance 3: two detectors each flipped twice
C1_Witness ==
  /\ Returned
  /\ SolverRan
  /\ Res.status = "OPTIMAL"
  /\ Res.distance = Some(3)
  /\ m.ub = 1

(***************************************************************************)
(* C2.  When the solver was run, the result has a distance exactly for     *)
(* the statuses optimal and feasible, and then distance is the number of   *)
(* entries of error_indices, which are distinct mechanism indices whose    *)
(* firing, replayed over the parser's lists, flips every detector evenly   *)
(* and some observable oddly; error_indices is never empty.                *)
(***************************************************************************)
C2_SelectionIsUndetectedLogical ==
  (Returned /\ SolverRan) =>
    /\ (Res.distance # NoneV) <=> (Res.status \in {"OPTIMAL", "FEASIBLE"})
    /\ Res.distance # NoneV =>
         /\ Res.error_indices # NoneV
         /\ LET idx == The(Res.error_indices)
            IN /\ The(Res.distance) = Len(idx)
               /\ Cardinality(Range(idx)) = Len(idx)
               /\ Range(idx) \subseteq 0..(Len(The(parsed).err_detectors) - 1)
               /\ UndetectedLogical(Range(idx), The(parsed))
               /\ idx # <<>>

\* a feasible, not optimal selection, beside an observable nothing touches
C2_Witness ==
  /\ Returned
  /\ SolverRan
  /\ Res.status = "FEASIBLE"
  /\ The(Res.distance) > MinWeight(The(parsed))
  /\ dem.num_observables = 2
  /\ UsedObs(dem.insts) = {0}

(***************************************************************************)
(* C3.  A shift-free DEM with no mechanism or no observable never has the  *)
(* solver run, and what is returned is exactly the record                  *)
(* {status: None, distance: None, error_indices: None}.                    *)
(***************************************************************************)
C3_DegenerateRecord ==
  (~HasShift(dem) /\ Degenerate(dem)) =>
    /\ pc \in {"call", "parsed", "build", "returned"}
    /\ ~m.optimized
    /\ Returned =>
         /\ Res = [status |-> "None", distance |-> NoneV, error_indices |-> NoneV]
         /\ DOMAIN Res = {"status", "distance", "error_indices"}

\* mechanisms and detectors but no observable, no time limit
C3_Witness ==
  /\ Returned
  /\ NumErrors(dem) = 2
  /\ dem.num_observables = 0
  /\ dem.num_detectors = 2
  /\ time_limit = NoneV
  /\ Res.status = "None"

(***************************************************************************)
(* C4.  A DEM with a detector-shift instruction anywhere makes the parser  *)
(* raise NotImplementedError, and the invocation ends there: no incidence  *)
(* lists, no model, no solver run and no result record.                    *)
(***************************************************************************)
C4_ShiftRaises ==
  HasShift(dem) =>
    /\ parse_dem_errors(dem) = [exc |-> "NotImplementedError"]
    /\ pc \in {"call", "raised"}
    /\ parsed = NoneV
    /\ m = NoModel
    /\ sol = NotSolved
    /\ result = NoneV

\* the shift comes after the last error instruction
C4_Witness ==
  /\ pc = "raised"
  /\ Len(dem.insts) = 3
  /\ IsError(dem.insts[1])
  /\ IsError(dem.insts[2])
  /\ dem.insts[3] = ShiftInst
  /\ dem.num_observables = 1

(***************************************************************************)
(* C5.  The scenario A = {D0, L0}, B = {D0, D1}, C = {D1, L0}.             *)
(***************************************************************************)
ScenarioDEM ==
  [insts |-> <<ErrorInst(<<DetTarget(0), ObsTarget(0)>>),
               ErrorInst(<<DetTarget(0), DetTarget(1)>>),
               ErrorInst(<<DetTarget(1), ObsTarget(0)>>)>>,
   num_detectors |-> 2, num_observables |-> 1]

\* C5 as claimed: the scenario returns optimal, distance 3, indices 0, 1, 2
C5_Original ==
  (dem = ScenarioDEM /\ Returned) =>
    /\ Res.status = "OPTIMAL"
    /\ Res.distance = Some(3)
    /\ Res.error_indices = Some(<<0, 1, 2>>)

\* C5 amended: firing A, B and C flips observable 0 twice, no selection is
\* an undetected logical error, the solver reports no solution and the
\* result has neither distance nor error_indices
C5_ScenarioHasNoLogicalError ==
  dem = ScenarioDEM =>
    /\ parsed # NoneV =>
         /\ Flips(The(parsed).err_detectors, {0, 1, 2}, 0) = 2
         /\ Flips(The(parsed).err_detectors, {0, 1, 2}, 1) = 2
         /\ Flips(The(parsed).err_observables, {0, 1, 2}, 0) = 2
         /\ LogicalErrors(The(parsed)) = {}
    /\ pc = "solved" => sol.status \notin {"OPTIMAL", "FEASIBLE"}
    /\ Returned =>
         /\ SolverRan
         /\ Res.status \in {"INFEASIBLE", "INT_INFEASIBLE", "NO_SOLUTION_FOUND", "ERROR"}
         /\ Res.distance = NoneV
         /\ Res.error_indices = NoneV

C5_Witness ==
  /\ dem = ScenarioDEM
  /\ Returned
  /\ Res.status = "INFEASIBLE"

(***************************************************************************)
(* C6.  After one mechanism is appended that has the detectors and         *)
(* observables of an existing one, an optimal distance is not smaller      *)
(* than the optimal distance of the original DEM, and a DEM proved         *)
(* infeasible stays without a solution.                                    *)
(***************************************************************************)
C6_DuplicationMonotone ==
  (Returned /\ first # NoneV) =>
    /\ (The(first).status = "OPTIMAL" /\ Res.status = "OPTIMAL")
          => The(Res.distance) >= The(The(first).distance)
    /\ The(first).status = "INFEASIBLE" => Res.status \notin {"OPTIMAL", "FEASIBLE"}

\* three mechanisms become four: the slack bound goes from 1 to 2
C6_Witness ==
  /\ Returned
  /\ first # NoneV
  /\ The(first).status = "OPTIMAL"
  /\ The(first).distance = Some(3)
  /\ Res.status = "OPTIMAL"
  /\ Len(dem.insts) = 4
  /\ m.ub = 2

(***************************************************************************)
(* C7.  For a shift-free DEM the parser returns, with one mechanism per    *)
(* error instruction in instruction order; each list is the strictly       *)
(* increasing list of the distinct detector (observable) targets of its    *)
(* instruction, unshifted; the totals are the declared ones.               *)
(***************************************************************************)
C7_ParserOutput ==
  /\ ~HasShift(dem) => "ret" \in DOMAIN parse_dem_errors(dem)
  /\ parsed # NoneV =>
       LET p == The(parsed)
           E == ErrorInsts(dem)
       IN /\ Len(p.err_detectors) = Len(E)
          /\ Len(p.err_observables) = Len(E)
          /\ \A k \in 1..Len(E) :
               /\ Range(p.err_detectors[k]) = TargetVals(E[k], "relative_detector_id")
               /\ Range(p.err_observables[k]) = TargetVals(E[k], "logical_observable_id")
               /\ StrictlyIncreasing(p.err_detectors[k])
               /\ StrictlyIncreasing(p.err_observables[k])
          /\ p.num_detectors = dem.num_detectors
          /\ p.num_observables = dem.num_observables

\* unsorted targets, another instruction in between, a repeated target and
\* a declared observable that no instruction mentions
C7_Witness ==
  /\ parsed # NoneV
  /\ dem.insts = <<ErrorInst(<<DetTarget(1), DetTarget(0)>>), OtherInst,
                   ErrorInst(<<ObsTarget(0), ObsTarget(0)>>)>>
  /\ dem.num_observables = 2
  /\ The(parsed).err_detectors = <<(<<0, 1>>), (<<>>)>>
  /\ The(parsed).err_observables = <<(<<>>), (<<0>>)>>

(***************************************************************************)
(* C8.  Whenever the solver was run the returned record has the four       *)
(* entries status, distance, error_indices and lower_bound, so the         *)
(* driver's read of lower_bound for a status other than optimal succeeds.  *)
(***************************************************************************)
C8_FourEntries ==
  (Returned /\ SolverRan) =>
    /\ DOMAIN Res = {"status", "distance", "error_indices", "lower_bound"}
    /\ ~DriverKeyError(Res)

(***************************************************************************)
(* C9.  Whenever optimize has been called, the model had been configured   *)
(* with a zero optimality gap, whatever time_limit is.                     *)
(***************************************************************************)
C9_ZeroGapBeforeOptimize == m.optimized => m.max_mip_gap = "0"

(***************************************************************************)
(* C10.  The phases NotBuilt, Built, Solved and the degenerate returns.    *)
(***************************************************************************)
\* C10 as claimed: a degenerate record is returned with no model created,
\* no variable or constraint added, and the solver not called
C10_Original ==
  (Returned /\ Degenerate(dem)) =>
    /\ ~m.created
    /\ m.nx = 0 /\ m.ny = 0 /\ m.ns = 0 /\ m.nw = 0
    /\ m.constrs = <<>>
    /\ ~m.optimized

\* what holds in every state of an invocation
C10_Phases ==
  /\ m.optimized => m.created
  /\ pc \in {"call", "parsed", "build", "raised"} => m = NoModel
  /\ pc = "built" => (m.created /\ ~m.optimized)
  /\ pc = "solved" => m.optimized
  /\ (Returned /\ NumErrors(dem) = 0) =>
       /\ m = NoModel
       /\ sol = NotSolved
       /\ Res = DegenerateRecord
  /\ (Returned /\ NumErrors(dem) > 0 /\ dem.num_observables = 0) =>
       /\ m.created
       /\ m.nx = NumErrors(dem)
       /\ m.ny = dem.num_detectors
       /\ m.ns = 0 /\ m.nw = 0
       /\ \A k \in DOMAIN m.constrs : m.constrs[k].kind = "detector_parity"
       /\ m.objective = "unset"
       /\ ~m.optimized
       /\ sol = NotSolved
       /\ Res = DegenerateRecord

\* C10 amended: the phases only advance; the zero-mechanism case is decided
\* while NotBuilt, the zero-observable case after the model, its variables
\* and its detector constraints were made, and the solver is called in
\* neither
C10_PhasesAndDegenerateReturns == []C10_Phases /\ [][PhaseRank' >= PhaseRank]_vars

\* a degenerate record returned with the model already built
C10_Witness ==
  /\ Returned
  /\ Res = DegenerateRecord
  /\ m.created
  /\ m.nx = 3
  /\ Len(m.constrs) = 2

====
